---- MODULE Spec2Model ----
(***************************************************************************)
(* Storage-layout subsystem of ink: the pull-or-initialize resolution      *)
(* (crates/storage/src/pull_or_init.rs), the Upgradable wrapper of the     *)
(* upgradeable flipper example, and the layout descriptions built by the   *)
(* metadata layout tests together with their portable (registry-compacted) *)
(* form.                                                                   *)
(***************************************************************************)
EXTENDS Integers, Naturals, Sequences, FiniteSets, TLC

VARIABLES
    store,      \* the contract storage: a partial function Key -> bytes
    res,        \* what the last storage operation returned (or its panic)
    call,       \* the last layout builder or registration called, with its input
    layout,     \* the last layout tree built
    registry,   \* the type registry: the table of registered descriptors
    portable,   \* the portable form of `layout`
    handle      \* the handle the last registration returned

vars == <<store, res, call, layout, registry, portable, handle>>

----------------------------------------------------------------------------
(* Bounds of the model.                                                    *)

\* number of consecutive storage keys operations start from
MaxKeys == 2
\* layouts are also built at the keys 0 .. MaxSmallKey
MaxSmallKey == 1

----------------------------------------------------------------------------
(* Keys, bytes and the encoding of packed values.                          *)

\* const KEY: Key = 111 of the pull_or_init tests
KEY == 111

StorageKeys == KEY .. (KEY + MaxKeys - 1)

\* The types the storage operations are instantiated with: U32 is the test's
\* wrapper that implements OnCallInitializer, the others are plain scalars.
StorableTypes == {"U32", "u32", "u8", "bool"}

\* impl OnCallInitializer for U32
OnCallInitializerTypes == {"U32"}

\* encoded width of a type, in bytes
EncodedWidth(T) == IF T \in {"U32", "u32"} THEN 4 ELSE 1

\* the values of each type the model writes
ValuesOf(T) ==
    CASE T = "U32" -> {123, 456}
      [] T = "u32" -> {321, 2147483647}
      [] T = "u8" -> {2}
      [] T = "bool" -> {0, 1}

Pow256(i) == CASE i = 0 -> 1 [] i = 1 -> 256 [] i = 2 -> 65536 [] i = 3 -> 16777216

\* little-endian fixed-width encoding of a scalar
Encode(T, v) == [i \in 1 .. EncodedWidth(T) |-> (v \div Pow256(i - 1)) % 256]

RECURSIVE FromLE(_, _)
FromLE(bytes, n) ==
    IF n = 0 THEN 0 ELSE FromLE(bytes, n - 1) + bytes[n] * Pow256(n - 1)

\* decoding reads the type's width from the front of the input; it fails on
\* a short input and on a byte that is no bool
Decode(T, bytes) ==
    IF Len(bytes) < EncodedWidth(T)
    THEN [tag |-> "err", value |-> 0]
    ELSE LET v == FromLE(bytes, EncodedWidth(T))
         IN  IF T = "bool" /\ v > 1
             THEN [tag |-> "err", value |-> 0]
             ELSE [tag |-> "some", value |-> v]

\* ink_env::get_contract_storage::<Key, T>(key): Ok(None), Ok(Some(v)), Err
get_contract_storage(T, key, st) ==
    IF key \notin DOMAIN st
    THEN [tag |-> "none", value |-> 0]
    ELSE Decode(T, st[key])

\* ink_env::set_contract_storage(&key, &value)
set_contract_storage(T, key, v, st) ==
    [k \in DOMAIN st \cup {key} |-> IF k = key THEN Encode(T, v) ELSE st[k]]

\* ink_env::clear_contract_storage(&key)
clear_contract_storage(key, st) ==
    [k \in DOMAIN st \ {key} |-> st[k]]

----------------------------------------------------------------------------
(* pull_or_init.rs                                                         *)

\* #[derive(Default)] struct U32(u32), and the scalars' defaults
Default(T) == 0

\* impl OnCallInitializer for U32 { fn initialize(&mut self) { self.0 = 123 } }
initialize(T, instance) == 123

Value(v, init) ==
    [kind |-> "value", value |-> v, initialized |-> init, msg |-> ""]

Panic(m) ==
    [kind |-> "panic", value |-> 0, initialized |-> FALSE, msg |-> m]


\* a pull that never looks at what it pulled
PullOrInit_pull_or_init_always_init(T, key, st) ==
    Value(initialize(T, Default(T)), TRUE)

\* a pull that surfaces the decode failure
PullOrInit_pull_or_init_surfacing(T, key, st) ==
    LET maybe_instance == get_contract_storage(T, key, st)
    IN  CASE maybe_instance.tag = "none" ->
               Value(initialize(T, Default(T)), TRUE)
          [] maybe_instance.tag = "err" ->
               Panic("could not properly decode storage entry")
          [] maybe_instance.tag = "some" -> Value(maybe_instance.value, FALSE)

\* impl<T: OnCallInitializer + Storable> PullOrInit<T> { fn pull_or_init }
PullOrInit_pull_or_init(T, key, st) ==
    LET maybe_instance == get_contract_storage(T, key, st)
    IN  IF maybe_instance.tag \in {"none", "err"}
        THEN Value(initialize(T, Default(T)), TRUE)
        ELSE Value(maybe_instance.value, FALSE)


\* a fallback that hands out the default for an absent entry
PullOrInitFallback_pull_or_init_defaulting(T, key, st) ==
    LET got == get_contract_storage(T, key, st)
    IN  CASE got.tag = "some" -> Value(got.value, FALSE)
          [] got.tag = "none" -> Value(Default(T), FALSE)
          [] got.tag = "err" -> Panic("could not properly decode storage entry")

\* a fallback with one message for both failures
PullOrInitFallback_pull_or_init_one_message(T, key, st) ==
    LET got == get_contract_storage(T, key, st)
    IN  CASE got.tag = "some" -> Value(got.value, FALSE)
          [] got.tag = "none" -> Panic("storage entry was empty")
          [] got.tag = "err" -> Panic("storage entry was empty")

\* trait PullOrInitFallback<T: Storable> { fn pull_or_init }
PullOrInitFallback_pull_or_init(T, key, st) ==
    LET got == get_contract_storage(T, key, st)
    IN  CASE got.tag = "some" -> Value(got.value, FALSE)
          [] got.tag = "none" -> Panic("storage entry was empty")
          [] got.tag = "err" -> Panic("could not properly decode storage entry")


\* a resolution that always lands on the trait's method
pull_or_init_fallback_only(T, key, st) ==
    PullOrInitFallback_pull_or_init(T, key, st)

\* macro pull_or_init!: the inherent method of PullOrInit<T> is found before
\* the method of the imported trait PullOrInitFallback
pull_or_init(T, key, st) ==
    IF T \in OnCallInitializerTypes
    THEN PullOrInit_pull_or_init(T, key, st)
    ELSE PullOrInitFallback_pull_or_init(T, key, st)

----------------------------------------------------------------------------
(* upgradable.rs: Upgradable<T, InitializationStatus>                      *)

Statuses == {"Initialized", "NotInitialized"}

\* Upgradable<T: PackedLayout, _>: the scalars; the tests' U32 derives no
\* storage layout
PackedTypes == {"u32", "u8", "bool"}

\* KeyPtr: the cursor of one root operation, created at the root key
KeyPtr_from(key) == [key |-> key]

\* ptr.key(): the cursor's current key, the cursor is left where it is
KeyPtr_key(ptr) == ptr.key

\* ptr.advance_by(n): take the current key, then advance by n slots
KeyPtr_advance_by(ptr, n) == [key |-> ptr.key, ptr |-> [key |-> ptr.key + n]]

\* <T as SpreadLayout>::FOOTPRINT of a packed scalar: one cell
T_FOOTPRINT(T) == 1

\* <T as SpreadLayout>::REQUIRES_DEEP_CLEAN_UP of a packed scalar
T_REQUIRES_DEEP_CLEAN_UP(T) == FALSE

\* <T as SpreadLayout>::pull_spread: one cell is read and decoded
T_pull_spread(T, ptr, st) ==
    LET at == KeyPtr_advance_by(ptr, T_FOOTPRINT(T))
        got == get_contract_storage(T, at.key, st)
    IN  [out |-> CASE got.tag = "some" -> Value(got.value, FALSE)
                   [] got.tag = "none" -> Panic("storage entry was empty")
                   [] got.tag = "err" ->
                        Panic("could not properly decode storage entry"),
         ptr |-> at.ptr, store |-> st]

\* <T as SpreadLayout>::push_spread: the value is encoded into one cell
T_push_spread(T, v, ptr, st) ==
    LET at == KeyPtr_advance_by(ptr, T_FOOTPRINT(T))
    IN  [out |-> Value(0, FALSE), ptr |-> at.ptr,
         store |-> set_contract_storage(T, at.key, v, st)]

\* <T as SpreadLayout>::clear_spread: the cell is removed
T_clear_spread(T, v, ptr, st) ==
    LET at == KeyPtr_advance_by(ptr, T_FOOTPRINT(T))
    IN  [out |-> Value(0, FALSE), ptr |-> at.ptr,
         store |-> clear_contract_storage(at.key, st)]

\* <T as SpreadAllocate>::allocate_spread: the default value, no store access
T_allocate_spread(T, ptr, st) ==
    LET at == KeyPtr_advance_by(ptr, T_FOOTPRINT(T))
    IN  [out |-> Value(Default(T), FALSE), ptr |-> at.ptr, store |-> st]

\* Upgradable::new(inner); the status is a PhantomData and holds nothing
Upgradable_new(inner) == [inner |-> inner]

\* wraps the value an inner operation returned; a panic passes through
Wrap(r) ==
    IF r.out.kind = "value"
    THEN [r EXCEPT !.out.value = Upgradable_new(r.out.value)]
    ELSE r

\* const FOOTPRINT of both SpreadLayout impls of Upgradable
Upgradable_FOOTPRINT(S, T) == T_FOOTPRINT(T)

\* const REQUIRES_DEEP_CLEAN_UP of both SpreadLayout impls of Upgradable
Upgradable_REQUIRES_DEEP_CLEAN_UP(S, T) == T_REQUIRES_DEEP_CLEAN_UP(T)

\* an allocation that builds the default itself and leaves the cursor alone
Upgradable_allocate_spread_unadvanced(S, T, ptr, st) ==
    [out |-> Value(Upgradable_new(Default(T)), FALSE), ptr |-> ptr, store |-> st]

\* impl SpreadAllocate for Upgradable<T, _>::allocate_spread
Upgradable_allocate_spread(S, T, ptr, st) ==
    Wrap(T_allocate_spread(T, ptr, st))


\* a pull that hands T a cursor other than its own
Upgradable_Initialized_pull_spread_moved(T, ptr, st) ==
    Wrap(T_pull_spread(T, KeyPtr_advance_by(ptr, T_FOOTPRINT(T)).ptr, st))

\* impl SpreadLayout for Upgradable<T, Initialized>::pull_spread
Upgradable_Initialized_pull_spread(T, ptr, st) ==
    Wrap(T_pull_spread(T, ptr, st))

\* a pull that takes an entry it cannot decode for an absent one
Upgradable_NotInitialized_pull_spread_lenient(T, ptr, st) ==
    LET got == get_contract_storage(T, KeyPtr_key(ptr), st)
    IN  IF got.tag \in {"err", "none"}
        THEN Upgradable_allocate_spread("NotInitialized", T, ptr, st)
        ELSE Wrap(T_pull_spread(T, ptr, st))

\* impl SpreadLayout for Upgradable<T, NotInitialized>::pull_spread
Upgradable_NotInitialized_pull_spread(T, ptr, st) ==
    LET got == get_contract_storage(T, KeyPtr_key(ptr), st)
    IN  CASE got.tag = "err" ->
               [out |-> Panic("could not properly decode storage entry"),
                ptr |-> ptr, store |-> st]
          [] got.tag = "none" ->
               Upgradable_allocate_spread("NotInitialized", T, ptr, st)
          [] got.tag = "some" -> Wrap(T_pull_spread(T, ptr, st))

Upgradable_pull_spread(S, T, ptr, st) ==
    IF S = "Initialized"
    THEN Upgradable_Initialized_pull_spread(T, ptr, st)
    ELSE Upgradable_NotInitialized_pull_spread(T, ptr, st)

\* a push that also stores the status, in a cell after the value's
Upgradable_push_spread_marked(S, T, self, ptr, st) ==
    LET pushed == T_push_spread(T, self.inner, ptr, st)
        at == KeyPtr_advance_by(pushed.ptr, 1)
    IN  [out |-> pushed.out, ptr |-> at.ptr,
         store |-> set_contract_storage("bool", at.key,
                       IF S = "Initialized" THEN 1 ELSE 0, pushed.store)]

\* push_spread of both SpreadLayout impls: T::push_spread(&self.inner, ptr)
Upgradable_push_spread(S, T, self, ptr, st) ==
    T_push_spread(T, self.inner, ptr, st)

\* clear_spread of both SpreadLayout impls: T::clear_spread(&self.inner, ptr)
Upgradable_clear_spread(S, T, self, ptr, st) ==
    T_clear_spread(T, self.inner, ptr, st)

\* <T as PackedLayout>::push_packed: the value is encoded into the cell at
T_push_packed(T, v, at, st) ==
    [out |-> Value(0, FALSE), store |-> set_contract_storage(T, at, v, st)]

\* <T as PackedLayout>::clear_packed: the cell at is removed
T_clear_packed(T, v, at, st) ==
    [out |-> Value(0, FALSE), store |-> clear_contract_storage(at, st)]

\* push_packed of both PackedLayout impls: T::push_packed(&self.inner, at)
Upgradable_push_packed(S, T, self, at, st) ==
    T_push_packed(T, self.inner, at, st)

\* clear_packed of both PackedLayout impls: T::clear_packed(&self.inner, at)
Upgradable_clear_packed(S, T, self, at, st) ==
    T_clear_packed(T, self.inner, at, st)

\* <T as StorageLayout>::layout of a packed scalar: one cell of type T at
\* the cursor's key
T_layout(T, key_ptr) ==
    LET at == KeyPtr_advance_by(key_ptr, T_FOOTPRINT(T))
    IN  [layout |-> [tag |-> "cell", key |-> at.key, ty |-> T], ptr |-> at.ptr]

\* impl StorageLayout for Upgradable<T, State>::layout
Upgradable_layout(S, T, key_ptr) == T_layout(T, key_ptr)

----------------------------------------------------------------------------
(* ink_metadata::layout: the layout tree and its constructors.             *)

\* the type descriptors the layouts' cells name, and the parts a compound
\* descriptor is made of
TypeDescriptors == {"i32", "i64", "bool", "(i32, bool)"}

Components(d) == IF d = "(i32, bool)" THEN <<"i32", "bool">> ELSE <<>>

None == <<>>
Some(x) == <<x>>

NoLayout == [tag |-> "none"]

\* LayoutKey::from(&key)
LayoutKey_from(key) == key

\* CellLayout::new::<T>(key)
CellLayout_new(T, key) == [tag |-> "cell", key |-> key, ty |-> T]

\* FieldLayout::new(name, layout)
FieldLayout_new(name, l) == [name |-> name, layout |-> l]

\* StructLayout::new(fields)
StructLayout_new(fields) == [tag |-> "struct", fields |-> fields]

\* the discriminants a list of (Discriminant, StructLayout) pairs declares
Discriminants(variants) == {variants[i][1] : i \in DOMAIN variants}

\* the variant a list of pairs ends up mapping d to: collecting into the map
\* keeps the last pair of a discriminant
LastOf(variants, d) ==
    LET i == CHOOSE i \in DOMAIN variants :
                 /\ variants[i][1] = d
                 /\ \A j \in DOMAIN variants : variants[j][1] = d => j <= i
    IN  variants[i][2]

\* EnumLayout::new(key, variants): the variants are collected into a map
\* ordered by discriminant
EnumLayout_new(key, variants) ==
    [tag |-> "enum", dispatch_key |-> LayoutKey_from(key),
     variants |-> [d \in Discriminants(variants) |-> LastOf(variants, d)]]

\* HashingStrategy::new(hasher, prefix, postfix)
HashingStrategy_new(hasher, prefix, postfix) ==
    [hasher |-> hasher, prefix |-> prefix, postfix |-> postfix]

\* HashLayout::new(key, strategy, layout)
HashLayout_new(key, strategy, l) ==
    [tag |-> "hash", offset |-> LayoutKey_from(key), strategy |-> strategy,
     layout |-> l]

----------------------------------------------------------------------------
(* layout/tests.rs: the layouts the tests build.                           *)


\* the fields declared the other way round
named_fields_struct_layout_reversed(key) ==
    StructLayout_new(<<
        FieldLayout_new(Some("b"), CellLayout_new("i64", LayoutKey_from(key))),
        FieldLayout_new(Some("a"), CellLayout_new("i32", LayoutKey_from(key)))
    >>)

\* fn named_fields_struct_layout(key: &StorageKey) -> Layout
named_fields_struct_layout(key) ==
    StructLayout_new(<<
        FieldLayout_new(Some("a"), CellLayout_new("i32", LayoutKey_from(key))),
        FieldLayout_new(Some("b"), CellLayout_new("i64", LayoutKey_from(key)))
    >>)

\* fn tuple_struct_layout(key: &StorageKey) -> Layout
tuple_struct_layout(key) ==
    StructLayout_new(<<
        FieldLayout_new(None, CellLayout_new("i32", LayoutKey_from(key))),
        FieldLayout_new(None, CellLayout_new("i64", LayoutKey_from(key)))
    >>)

\* fn clike_enum_layout(key: &StorageKey) -> Layout
clike_enum_layout(key) ==
    EnumLayout_new(key, <<
        <<0, StructLayout_new(<<>>)>>,
        <<1, StructLayout_new(<<>>)>>,
        <<2, StructLayout_new(<<>>)>>
    >>)


\* the variants' cells keyed without the root key
mixed_enum_layout_unkeyed(key) ==
    EnumLayout_new(key, <<
        <<0, StructLayout_new(<<>>)>>,
        (LET variant_key == 0
         IN <<1, StructLayout_new(<<
                FieldLayout_new(None,
                    CellLayout_new("i32", LayoutKey_from(variant_key))),
                FieldLayout_new(None,
                    CellLayout_new("i64", LayoutKey_from(variant_key)))
            >>)>>),
        (LET variant_key == 0
         IN <<2, StructLayout_new(<<
                FieldLayout_new(Some("a"),
                    CellLayout_new("i32", LayoutKey_from(variant_key))),
                FieldLayout_new(Some("b"),
                    CellLayout_new("i64", LayoutKey_from(variant_key)))
            >>)>>)
    >>)

\* the last variant's field types the other way round
mixed_enum_layout_swapped(key) ==
    EnumLayout_new(key, <<
        <<0, StructLayout_new(<<>>)>>,
        <<1, StructLayout_new(<<
                FieldLayout_new(None, CellLayout_new("i32", LayoutKey_from(key))),
                FieldLayout_new(None, CellLayout_new("i64", LayoutKey_from(key)))
            >>)>>,
        <<2, StructLayout_new(<<
                FieldLayout_new(Some("a"), CellLayout_new("i64", LayoutKey_from(key))),
                FieldLayout_new(Some("b"), CellLayout_new("i32", LayoutKey_from(key)))
            >>)>>
    >>)

\* fn mixed_enum_layout(key: &StorageKey) -> Layout
mixed_enum_layout(key) ==
    EnumLayout_new(key, <<
        <<0, StructLayout_new(<<>>)>>,
        (LET variant_key == key
         IN <<1, StructLayout_new(<<
                FieldLayout_new(None,
                    CellLayout_new("i32", LayoutKey_from(variant_key))),
                FieldLayout_new(None,
                    CellLayout_new("i64", LayoutKey_from(variant_key)))
            >>)>>),
        (LET variant_key == key
         IN <<2, StructLayout_new(<<
                FieldLayout_new(Some("a"),
                    CellLayout_new("i32", LayoutKey_from(variant_key))),
                FieldLayout_new(Some("b"),
                    CellLayout_new("i64", LayoutKey_from(variant_key)))
            >>)>>)
    >>)

\* b"ink storage hashmap"
InkStorageHashmap ==
    <<105, 110, 107, 32, 115, 116, 111, 114, 97, 103, 101, 32,
      104, 97, 115, 104, 109, 97, 112>>

\* the strategy unbounded_hashing_layout passes to HashLayout::new
unbounded_hashing_strategy ==
    HashingStrategy_new("Blake2x256", InkStorageHashmap, <<>>)


\* the strategy's byte strings handed over in the other order
hashing_layout_swapped(key, strategy) ==
    HashLayout_new(key,
        HashingStrategy_new(strategy.hasher, strategy.postfix, strategy.prefix),
        CellLayout_new("(i32, bool)", LayoutKey_from(key)))

\* fn unbounded_hashing_layout(key: &StorageKey) -> Layout, with the
\* strategy as a parameter
hashing_layout(key, strategy) ==
    LET root_key == key
    IN  HashLayout_new(root_key, strategy,
            CellLayout_new("(i32, bool)", LayoutKey_from(root_key)))

\* fn unbounded_hashing_layout(key: &StorageKey) -> Layout
unbounded_hashing_layout(key) ==
    hashing_layout(key, unbounded_hashing_strategy)

\* the value named_fields_work expects for key 345
named_fields_work_expected ==
    [struct |-> [fields |-> <<
        [layout |-> [cell |-> [key |-> "0x00000159", ty |-> 0]], name |-> Some("a")],
        [layout |-> [cell |-> [key |-> "0x00000159", ty |-> 1]], name |-> Some("b")]
    >>]]

\* the value tuple_struct_work expects for key 234
tuple_struct_work_expected ==
    [struct |-> [fields |-> <<
        [layout |-> [cell |-> [key |-> "0x000000ea", ty |-> 0]], name |-> None],
        [layout |-> [cell |-> [key |-> "0x000000ea", ty |-> 1]], name |-> None]
    >>]]

\* the value clike_enum_work expects for key 123
clike_enum_work_expected ==
    [enum |-> [dispatchKey |-> "0x0000007b",
               variants |-> [s \in {"0", "1", "2"} |-> [fields |-> <<>>]]]]

\* the value mixed_enum_work expects for key 456
mixed_enum_work_expected ==
    [enum |-> [dispatchKey |-> "0x000001c8",
               variants |-> [s \in {"0", "1", "2"} |->
                   CASE s = "0" -> [fields |-> <<>>]
                     [] s = "1" -> [fields |-> <<
                          [layout |-> [cell |-> [key |-> "0x000001c8", ty |-> 0]],
                           name |-> None],
                          [layout |-> [cell |-> [key |-> "0x000001c8", ty |-> 1]],
                           name |-> None] >>]
                     [] s = "2" -> [fields |-> <<
                          [layout |-> [cell |-> [key |-> "0x000001c8", ty |-> 0]],
                           name |-> Some("a")],
                          [layout |-> [cell |-> [key |-> "0x000001c8", ty |-> 1]],
                           name |-> Some("b")] >>]]]]

\* the value unbounded_layout_works expects for key 567
unbounded_layout_works_expected ==
    [hash |->
        [layout |-> [cell |-> [key |-> "0x00000237", ty |-> 0]],
         offset |-> "0x00000237",
         strategy |-> [hasher |-> "Blake2x256",
                       prefix |-> "0x696e6b2073746f7261676520686173686d6170",
                       postfix |-> ""]]]

----------------------------------------------------------------------------
(* The type registry and the portable form.                                *)

\* Registry::new()
Registry_new == <<>>

\* the handle of a registered descriptor: its position in the table, from 0
HandleOf(d, reg) == (CHOOSE i \in DOMAIN reg : reg[i] = d) - 1

IsRegistered(d, reg) == \E i \in DOMAIN reg : reg[i] = d

RECURSIVE register_type(_, _)
RECURSIVE register_components(_, _)

\* Registry::register_type(meta): a descriptor seen before resolves to its
\* handle; a new one takes the next handle, then registers its components
register_type(d, reg) ==
    IF IsRegistered(d, reg)
    THEN [handle |-> HandleOf(d, reg), registry |-> reg]
    ELSE [handle |-> Len(reg),
          registry |-> register_components(Components(d), Append(reg, d))]

register_components(ds, reg) ==
    IF ds = <<>>
    THEN reg
    ELSE register_components(Tail(ds), register_type(Head(ds), reg).registry)

RECURSIVE Layout_into_portable(_, _)
RECURSIVE Fields_into_portable(_, _, _)
RECURSIVE Variants_into_portable(_, _, _, _)

\* Layout::into_portable(self, registry): cells trade their type for its
\* handle, children are walked in order with the one registry
Layout_into_portable(l, reg) ==
    CASE l.tag = "cell" ->
           LET r == register_type(l.ty, reg)
           IN  [layout |-> [tag |-> "cell", key |-> l.key, ty |-> r.handle],
                registry |-> r.registry]
      [] l.tag = "struct" ->
           LET r == Fields_into_portable(l.fields, <<>>, reg)
           IN  [layout |-> [tag |-> "struct", fields |-> r.fields],
                registry |-> r.registry]
      [] l.tag = "enum" ->
           LET r == Variants_into_portable(l.variants, DOMAIN l.variants,
                                           [d \in {} |-> NoLayout], reg)
           IN  [layout |-> [tag |-> "enum", dispatch_key |-> l.dispatch_key,
                            variants |-> r.variants],
                registry |-> r.registry]
      [] l.tag = "hash" ->
           LET r == Layout_into_portable(l.layout, reg)
           IN  [layout |-> [tag |-> "hash", offset |-> l.offset,
                            strategy |-> l.strategy, layout |-> r.layout],
                registry |-> r.registry]

\* the fields of a struct, in declaration order
Fields_into_portable(fields, done, reg) ==
    IF fields = <<>>
    THEN [fields |-> done, registry |-> reg]
    ELSE LET r == Layout_into_portable(Head(fields).layout, reg)
         IN  Fields_into_portable(Tail(fields),
                 Append(done, [name |-> Head(fields).name, layout |-> r.layout]),
                 r.registry)

\* the variants of an enum, in ascending order of discriminant
Variants_into_portable(variants, left, done, reg) ==
    IF left = {}
    THEN [variants |-> done, registry |-> reg]
    ELSE LET d == CHOOSE x \in left : \A y \in left : x <= y
             r == Layout_into_portable(variants[d], reg)
         IN  Variants_into_portable(variants, left \ {d},
                 [x \in DOMAIN done \cup {d} |->
                     IF x = d THEN r.layout ELSE done[x]],
                 r.registry)

----------------------------------------------------------------------------
(* The serialized (JSON) shape of the portable form.                       *)

HexDigit(n) ==
    CASE n = 0 -> "0" [] n = 1 -> "1" [] n = 2 -> "2" [] n = 3 -> "3"
      [] n = 4 -> "4" [] n = 5 -> "5" [] n = 6 -> "6" [] n = 7 -> "7"
      [] n = 8 -> "8" [] n = 9 -> "9" [] n = 10 -> "a" [] n = 11 -> "b"
      [] n = 12 -> "c" [] n = 13 -> "d" [] n = 14 -> "e" [] n = 15 -> "f"

RECURSIVE HexDigits(_, _)
\* the n lowest hexadecimal digits of k, most significant first
HexDigits(k, n) ==
    IF n = 0 THEN "" ELSE HexDigits(k \div 16, n - 1) \o HexDigit(k % 16)

\* a LayoutKey serializes as 0x and the eight digits of the key
LayoutKey_serialize(key) == "0x" \o HexDigits(key, 8)

RECURSIVE BytesHex(_)
BytesHex(bytes) ==
    IF bytes = <<>> THEN "" ELSE HexDigits(Head(bytes), 2) \o BytesHex(Tail(bytes))

\* a byte string serializes as 0x and two digits per byte, an empty one as
\* the empty string
Bytes_serialize(bytes) == IF bytes = <<>> THEN "" ELSE "0x" \o BytesHex(bytes)

RECURSIVE Decimal(_)
\* a discriminant's decimal string
Decimal(n) ==
    IF n < 10 THEN HexDigit(n) ELSE Decimal(n \div 10) \o HexDigit(n % 10)

RECURSIVE Layout_serialize(_)

Fields_serialize(fields) ==
    [i \in DOMAIN fields |->
        [layout |-> Layout_serialize(fields[i].layout), name |-> fields[i].name]]

Layout_serialize(l) ==
    CASE l.tag = "cell" ->
           [cell |-> [key |-> LayoutKey_serialize(l.key), ty |-> l.ty]]
      [] l.tag = "struct" ->
           [struct |-> [fields |-> Fields_serialize(l.fields)]]
      [] l.tag = "enum" ->
           [enum |->
              [dispatchKey |-> LayoutKey_serialize(l.dispatch_key),
               variants |->
                  [s \in {Decimal(d) : d \in DOMAIN l.variants} |->
                      LET d == CHOOSE x \in DOMAIN l.variants : Decimal(x) = s
                      IN  [fields |-> Fields_serialize(l.variants[d].fields)]]]]
      [] l.tag = "hash" ->
           [hash |->
              [layout |-> Layout_serialize(l.layout),
               offset |-> LayoutKey_serialize(l.offset),
               strategy |->
                  [hasher |-> l.strategy.hasher,
                   prefix |-> Bytes_serialize(l.strategy.prefix),
                   postfix |-> Bytes_serialize(l.strategy.postfix)]]]
      [] l.tag = "none" -> [none |-> TRUE]

\* the key narrowed to its lowest byte before it is rendered
layout_key_json_narrowed(key) ==
    LayoutKey_serialize(LayoutKey_from(key % 256))

\* layout_key_works: LayoutKey::from(&key), then serde_json::to_string
layout_key_json(key) ==
    LayoutKey_serialize(LayoutKey_from(key))

\* the string layout_key_works expects for key 1
layout_key_works_expected == "0x00000001"

\* what each test does with its layout: into_portable with a new registry,
\* then serde_json::to_value
Compact(l) ==
    LET r == Layout_into_portable(l, Registry_new)
    IN  [json |-> Layout_serialize(r.layout), registry |-> r.registry]

----------------------------------------------------------------------------
(* The storage operations as steps.                                        *)

NoCall ==
    [fn |-> "none", key |-> 0, ty |-> "i32",
     strategy |-> unbounded_hashing_strategy]

NoRes ==
    [op |-> "none", ty |-> "u8", status |-> "Initialized", key |-> KEY,
     arg |-> 0, out |-> Value(0, FALSE), ptr |-> KeyPtr_from(KEY)]

EmptyStore == [k \in {} |-> <<>>]

LayoutUnchanged == UNCHANGED <<call, layout, registry, portable, handle>>

\* ink_env::set_contract_storage(&KEY, &v), as the tests call it
SetContractStorage(T, key, v) ==
    /\ store' = set_contract_storage(T, key, v, store)
    /\ res' = [NoRes EXCEPT !.op = "set_contract_storage", !.ty = T,
                            !.key = key, !.arg = v, !.ptr = KeyPtr_from(key)]
    /\ LayoutUnchanged

\* a pull that writes the value it initialized back to the store
PullOrInit_persisting(T, key) ==
    LET out == pull_or_init(T, key, store)
    IN  /\ res' = [NoRes EXCEPT !.op = "pull_or_init", !.ty = T, !.key = key,
                                !.out = out, !.ptr = KeyPtr_from(key)]
        /\ store' = IF out.initialized
                    THEN set_contract_storage(T, key, out.value, store)
                    ELSE store
        /\ LayoutUnchanged

\* pull_or_init!(T, KEY)
PullOrInit(T, key) ==
    /\ res' = [NoRes EXCEPT !.op = "pull_or_init", !.ty = T, !.key = key,
                            !.out = pull_or_init(T, key, store),
                            !.ptr = KeyPtr_from(key)]
    /\ UNCHANGED store
    /\ LayoutUnchanged

\* a root push of an Upgradable<T, S> from a fresh cursor at key
PushSpread(S, T, key, v) ==
    LET r == Upgradable_push_spread(S, T, Upgradable_new(v), KeyPtr_from(key), store)
    IN  /\ store' = r.store
        /\ res' = [NoRes EXCEPT !.op = "push_spread", !.ty = T, !.status = S,
                                !.key = key, !.arg = v, !.ptr = r.ptr]
        /\ LayoutUnchanged

\* a root pull of an Upgradable<T, S> from a fresh cursor at key
PullSpread(S, T, key) ==
    LET r == Upgradable_pull_spread(S, T, KeyPtr_from(key), store)
    IN  /\ store' = r.store
        /\ res' = [NoRes EXCEPT !.op = "pull_spread", !.ty = T, !.status = S,
                                !.key = key, !.out = r.out, !.ptr = r.ptr]
        /\ LayoutUnchanged

\* a root clear of an Upgradable<T, S> from a fresh cursor at key
ClearSpread(S, T, key, v) ==
    LET r == Upgradable_clear_spread(S, T, Upgradable_new(v), KeyPtr_from(key), store)
    IN  /\ store' = r.store
        /\ res' = [NoRes EXCEPT !.op = "clear_spread", !.ty = T, !.status = S,
                                !.key = key, !.arg = v, !.ptr = r.ptr]
        /\ LayoutUnchanged

\* a root push of an Upgradable<T, S> and a root pull from the same key, each
\* with a cursor of its own
PushThenPull(S, T, key, v) ==
    LET pushed == Upgradable_push_spread(S, T, Upgradable_new(v),
                                         KeyPtr_from(key), store)
        pulled == Upgradable_pull_spread(S, T, KeyPtr_from(key), pushed.store)
    IN  /\ store' = pulled.store
        /\ res' = [NoRes EXCEPT !.op = "push_then_pull", !.ty = T, !.status = S,
                                !.key = key, !.arg = v, !.out = pulled.out,
                                !.ptr = pulled.ptr]
        /\ LayoutUnchanged

\* push_packed of an Upgradable<T, S> at key
PushPacked(S, T, key, v) ==
    LET r == Upgradable_push_packed(S, T, Upgradable_new(v), key, store)
    IN  /\ store' = r.store
        /\ res' = [NoRes EXCEPT !.op = "push_packed", !.ty = T, !.status = S,
                                !.key = key, !.arg = v, !.ptr = KeyPtr_from(key)]
        /\ LayoutUnchanged

\* clear_packed of an Upgradable<T, S> at key
ClearPacked(S, T, key, v) ==
    LET r == Upgradable_clear_packed(S, T, Upgradable_new(v), key, store)
    IN  /\ store' = r.store
        /\ res' = [NoRes EXCEPT !.op = "clear_packed", !.ty = T, !.status = S,
                                !.key = key, !.arg = v, !.ptr = KeyPtr_from(key)]
        /\ LayoutUnchanged

\* a root allocation of an Upgradable<T, S> from a fresh cursor at key
AllocateSpread(S, T, key) ==
    LET r == Upgradable_allocate_spread(S, T, KeyPtr_from(key), store)
    IN  /\ store' = r.store
        /\ res' = [NoRes EXCEPT !.op = "allocate_spread", !.ty = T, !.status = S,
                                !.key = key, !.out = r.out, !.ptr = r.ptr]
        /\ LayoutUnchanged

\* the storage layout of an Upgradable<T, S> from a fresh cursor at key
StorageLayoutOf(S, T, key) ==
    LET r == Upgradable_layout(S, T, KeyPtr_from(key))
    IN  /\ res' = [NoRes EXCEPT !.op = "layout", !.ty = T, !.status = S,
                                !.key = key, !.out = Value(r.layout, FALSE),
                                !.ptr = r.ptr]
        /\ UNCHANGED store
        /\ LayoutUnchanged

Init ==
    /\ store = EmptyStore
    /\ res = NoRes
    /\ call = NoCall
    /\ layout = NoLayout
    /\ registry = <<>>
    /\ portable = NoLayout
    /\ handle = 0

Next ==
    \/ \E T \in StorableTypes, key \in StorageKeys :
         \E v \in ValuesOf(T) : SetContractStorage(T, key, v)
    \/ \E T \in StorableTypes, key \in StorageKeys : PullOrInit(T, key)
    \/ \E S \in Statuses, T \in PackedTypes, key \in StorageKeys :
         \E v \in ValuesOf(T) : PushSpread(S, T, key, v)
    \/ \E S \in Statuses, T \in PackedTypes, key \in StorageKeys :
         PullSpread(S, T, key)
    \/ \E S \in Statuses, T \in PackedTypes, key \in StorageKeys :
         \E v \in {Default(T)} : ClearSpread(S, T, key, v)
    \/ \E S \in Statuses, T \in PackedTypes, key \in StorageKeys :
         \E v \in ValuesOf(T) : PushThenPull(S, T, key, v)

Spec == Init /\ [][Next]_vars

\* the operations of Upgradable alone
UpgradableNext ==
    \/ \E S \in Statuses, T \in PackedTypes, key \in StorageKeys :
         \E v \in ValuesOf(T) : PushSpread(S, T, key, v)
    \/ \E S \in Statuses, T \in PackedTypes, key \in StorageKeys :
         PullSpread(S, T, key)
    \/ \E S \in Statuses, T \in PackedTypes, key \in StorageKeys :
         \E v \in {Default(T)} : ClearSpread(S, T, key, v)
    \/ \E S \in Statuses, T \in PackedTypes, key \in StorageKeys :
         \E v \in ValuesOf(T) : PushPacked(S, T, key, v)
    \/ \E S \in Statuses, T \in PackedTypes, key \in StorageKeys :
         \E v \in {Default(T)} : ClearPacked(S, T, key, v)
    \/ \E S \in Statuses, T \in PackedTypes, key \in StorageKeys :
         AllocateSpread(S, T, key)
    \/ \E S \in Statuses, T \in PackedTypes, key \in StorageKeys :
         StorageLayoutOf(S, T, key)

UpgradableSpec == Init /\ [][UpgradableNext]_vars

----------------------------------------------------------------------------
(* The layout tests as steps.                                              *)

\* the keys the tests lay out from (1, 345, 234, 123, 456, 567), the small
\* keys and the largest key the model's integers hold
LayoutKeys == {1, 123, 234, 345, 456, 567, 2147483647} \cup (0 .. MaxSmallKey)

Hashers == {"Blake2x256", "Sha2x256", "Keccak256"}

ByteStrings == {<<>>, <<0>>, <<255, 1>>, InkStorageHashmap}

Builders ==
    {"named_fields_struct_layout", "tuple_struct_layout", "clike_enum_layout",
     "mixed_enum_layout", "unbounded_hashing_layout"}

Build(fn, key) ==
    CASE fn = "named_fields_struct_layout" -> named_fields_struct_layout(key)
      [] fn = "tuple_struct_layout" -> tuple_struct_layout(key)
      [] fn = "clike_enum_layout" -> clike_enum_layout(key)
      [] fn = "mixed_enum_layout" -> mixed_enum_layout(key)
      [] fn = "unbounded_hashing_layout" -> unbounded_hashing_layout(key)

StorageUnchanged == UNCHANGED <<store, res>>

\* one of the tests, at any key: build, compact with a new registry, serialize;
\* every test is a run of its own and starts with nothing built
BuildLayout(fn, key) ==
    LET l == Build(fn, key)
        c == Compact(l)
    IN  /\ call.fn = "none"
        /\ call' = [NoCall EXCEPT !.fn = fn, !.key = key,
                                  !.strategy = unbounded_hashing_strategy]
        /\ layout' = l
        /\ registry' = c.registry
        /\ portable' = c.json
        /\ handle' = 0
        /\ StorageUnchanged

\* the hash-collection test with any hashing strategy
BuildHashLayout(key, hasher, prefix, postfix) ==
    LET strategy == HashingStrategy_new(hasher, prefix, postfix)
        l == hashing_layout(key, strategy)
        c == Compact(l)
    IN  /\ call.fn = "none"
        /\ call' = [NoCall EXCEPT !.fn = "hashing_layout", !.key = key,
                                  !.strategy = strategy]
        /\ layout' = l
        /\ registry' = c.registry
        /\ portable' = c.json
        /\ handle' = 0
        /\ StorageUnchanged

\* layout_key_works, at any key: the key alone is rendered
LayoutKeyWorks(key) ==
    /\ call.fn = "none"
    /\ call' = [NoCall EXCEPT !.fn = "layout_key_works", !.key = key]
    /\ portable' = layout_key_json(key)
    /\ UNCHANGED <<layout, registry, handle>>
    /\ StorageUnchanged

\* one more descriptor is registered in the registry at hand
RegisterType(d) ==
    LET r == register_type(d, registry)
    IN  /\ call' = [NoCall EXCEPT !.fn = "register_type", !.ty = d]
        /\ registry' = r.registry
        /\ handle' = r.handle
        /\ UNCHANGED <<layout, portable>>
        /\ StorageUnchanged

LayoutNext ==
    \/ \E fn \in Builders, key \in LayoutKeys : BuildLayout(fn, key)
    \/ \E key \in LayoutKeys, hasher \in Hashers :
         \E prefix \in ByteStrings, postfix \in ByteStrings :
            BuildHashLayout(key, hasher, prefix, postfix)
    \/ \E d \in TypeDescriptors : RegisterType(d)
    \/ \E key \in LayoutKeys : LayoutKeyWorks(key)

LayoutSpec == Init /\ [][LayoutNext]_vars

----------------------------------------------------------------------------
(* Properties of pull_or_init and of the Upgradable round trip (Spec).     *)

PulledOrInit == res.op = "pull_or_init"

Absent == res.key \notin DOMAIN store

Undecodable ==
    /\ res.key \in DOMAIN store
    /\ get_contract_storage(res.ty, res.key, store).tag = "err"

\* C1: for a type with the on-demand initializer and a key holding no entry,
\* pull_or_init does not abort and returns the default value with the
\* initializer applied (123 for U32): the initializer-aware method is the one
\* the call resolves to.
C1_AbsentIsInitialized ==
    (PulledOrInit /\ res.ty \in OnCallInitializerTypes /\ Absent)
        => /\ res.out.kind = "value"
           /\ res.out.initialized
           /\ res.out.value = initialize(res.ty, Default(res.ty))
           /\ (res.ty = "U32" => res.out.value = 123)

C1_Witness ==
    /\ PulledOrInit /\ res.ty = "U32" /\ Absent
    /\ res.out.kind = "value" /\ res.out.value = 123

\* C2: for a type with the initializer, once v is written at K a following
\* pull_or_init at K returns exactly v, and the initializer is not run on it.
C2_WrittenIsPulled ==
    \A v \in ValuesOf(res.ty) :
        (/\ PulledOrInit /\ res.ty \in OnCallInitializerTypes
         /\ res.key \in DOMAIN store
         /\ store[res.key] = Encode(res.ty, v))
            => res.out = Value(v, FALSE)

C2_Witness ==
    /\ PulledOrInit /\ res.ty = "U32"
    /\ res.key \in DOMAIN store
    /\ store[res.key] = Encode("U32", 456)
    /\ res.out.value = 456 /\ ~res.out.initialized

\* C3: for a type without the initializer, pull_or_init at a key holding no
\* entry returns no value and aborts with "storage entry was empty"; at a key
\* holding an entry that decodes as T it returns the stored value.
C3_FallbackAbsentAborts ==
    /\ (PulledOrInit /\ res.ty \notin OnCallInitializerTypes /\ Absent)
          => res.out = Panic("storage entry was empty")
    /\ \A v \in ValuesOf(res.ty) :
          (/\ PulledOrInit /\ res.ty \notin OnCallInitializerTypes
           /\ res.key \in DOMAIN store
           /\ store[res.key] = Encode(res.ty, v))
              => res.out = Value(v, FALSE)

C3_Witness ==
    /\ PulledOrInit /\ res.ty = "u32" /\ Absent
    /\ res.out.kind = "panic" /\ res.out.msg = "storage entry was empty"

\* C4: for a type with the initializer and a key whose bytes do not decode as
\* T, pull_or_init surfaces no error and returns the initialized default, the
\* very result it gives on an empty store.
C4_UndecodableIsInitialized ==
    (PulledOrInit /\ res.ty \in OnCallInitializerTypes /\ Undecodable)
        => /\ res.out.kind = "value"
           /\ res.out = Value(initialize(res.ty, Default(res.ty)), TRUE)
           /\ res.out = pull_or_init(res.ty, res.key, EmptyStore)

C4_Witness ==
    /\ PulledOrInit /\ res.ty = "U32" /\ Undecodable
    /\ Len(store[res.key]) = 1
    /\ res.out.kind = "value" /\ res.out.initialized /\ res.out.value = 123

\* C5 as stated: for a type without the initializer and a key whose bytes do
\* not decode as T, pull_or_init aborts with "could not decode stored entry",
\* a message other than the one for an absent entry.
C5_AsStated ==
    (PulledOrInit /\ res.ty \notin OnCallInitializerTypes /\ Undecodable)
        => /\ res.out.kind = "panic"
           /\ res.out.msg = "could not decode stored entry"
           /\ res.out.msg # "storage entry was empty"

\* C5: for a type without the initializer and a key whose bytes do not decode
\* as T, pull_or_init aborts with "could not properly decode storage entry",
\* a message other than the one for an absent entry.
C5_UndecodableAborts ==
    (PulledOrInit /\ res.ty \notin OnCallInitializerTypes /\ Undecodable)
        => /\ res.out.kind = "panic"
           /\ res.out.msg = "could not properly decode storage entry"
           /\ res.out.msg # "storage entry was empty"

C5_Witness ==
    /\ PulledOrInit /\ res.ty = "u32" /\ Undecodable
    /\ res.out.kind = "panic"

\* C6: pushing v from key K and then pulling from the same key K yields a
\* value equal to v, for Upgradable<T, Initialized> (and NotInitialized) over
\* every packed T, whose push and pull hand T the cursor they were given.
C6_PushPullRoundTrip ==
    res.op = "push_then_pull"
        => /\ res.out.kind = "value"
           /\ res.out.value = Upgradable_new(res.arg)
           /\ store[res.key] = Encode(res.ty, res.arg)

C6_Witness ==
    /\ res.op = "push_then_pull" /\ res.status = "Initialized"
    /\ res.ty = "u32" /\ res.arg = 2147483647
    /\ res.out.kind = "value" /\ res.out.value = Upgradable_new(2147483647)

----------------------------------------------------------------------------
(* Properties of the layouts' portable form (LayoutSpec).                  *)

BuiltStruct ==
    call.fn \in {"named_fields_struct_layout", "tuple_struct_layout"}

BuiltEnum == call.fn \in {"clike_enum_layout", "mixed_enum_layout"}

BuiltHash == call.fn \in {"unbounded_hashing_layout", "hashing_layout"}

\* the names the two struct layouts declare, in declaration order
DeclaredNames(fn) ==
    IF fn = "named_fields_struct_layout"
    THEN <<Some("a"), Some("b")>>
    ELSE <<None, None>>

\* the fields of the portable form of a struct body laid out from key
StructFieldsAt(body, key) ==
    CASE body = "empty" -> <<>>
      [] body = "tuple" -> Compact(tuple_struct_layout(key)).json.struct.fields
      [] body = "named" ->
           Compact(named_fields_struct_layout(key)).json.struct.fields

\* the body each discriminant of the two enum layouts declares
DeclaredBody(fn, s) ==
    CASE fn = "clike_enum_layout" -> "empty"
      [] fn = "mixed_enum_layout" /\ s = "0" -> "empty"
      [] fn = "mixed_enum_layout" /\ s = "1" -> "tuple"
      [] fn = "mixed_enum_layout" /\ s = "2" -> "named"

\* C7: the portable form of a struct layout built from root key K lists the
\* fields in declaration order with their names kept (none for an unnamed
\* field), every field's cell is keyed K, and the cells' type handles are
\* 0, 1 in order of first encounter; key 345 with i32 "a" and i64 "b" gives
\* 0x00000159 twice and handles 0 and 1.
C7_StructPortable ==
    BuiltStruct
        => /\ Len(portable.struct.fields) = 2
           /\ \A i \in 1 .. 2 :
                 /\ portable.struct.fields[i].name = DeclaredNames(call.fn)[i]
                 /\ portable.struct.fields[i].layout.cell.key
                        = LayoutKey_serialize(call.key)
                 /\ portable.struct.fields[i].layout.cell.ty = i - 1
           /\ (call.fn = "named_fields_struct_layout" /\ call.key = 345
                  => portable = named_fields_work_expected)
           /\ (call.fn = "tuple_struct_layout" /\ call.key = 234
                  => portable = tuple_struct_work_expected)

C7_Witness ==
    /\ call.fn = "named_fields_struct_layout" /\ call.key = 345
    /\ portable.struct.fields[1].layout.cell.key = "0x00000159"
    /\ portable.struct.fields[2].name = Some("b")

\* C8: the portable form of an enum layout built at root key K has dispatch
\* key K, exactly one variant entry per declared discriminant under that
\* discriminant's decimal string, and each variant's field list is that of
\* the struct layout built from K for the variant's body: every variant cell
\* is keyed K and an empty body has no fields.
C8_EnumPortable ==
    BuiltEnum
        => /\ portable.enum.dispatchKey = LayoutKey_serialize(call.key)
           /\ DOMAIN portable.enum.variants = {"0", "1", "2"}
           /\ \A s \in DOMAIN portable.enum.variants :
                 /\ portable.enum.variants[s].fields
                        = StructFieldsAt(DeclaredBody(call.fn, s), call.key)
                 /\ \A i \in DOMAIN portable.enum.variants[s].fields :
                       portable.enum.variants[s].fields[i].layout.cell.key
                           = LayoutKey_serialize(call.key)
           /\ (call.fn = "clike_enum_layout" /\ call.key = 123
                  => portable = clike_enum_work_expected)
           /\ (call.fn = "mixed_enum_layout" /\ call.key = 456
                  => portable = mixed_enum_work_expected)

C8_Witness ==
    /\ call.fn = "mixed_enum_layout" /\ call.key = 456
    /\ portable.enum.dispatchKey = "0x000001c8"
    /\ Len(portable.enum.variants["2"].fields) = 2
    /\ portable.enum.variants["0"].fields = <<>>

NoDuplicates(reg) ==
    \A i, j \in DOMAIN reg : reg[i] = reg[j] => i = j

\* a step that registers a descriptor: one seen before resolves to its
\* handle and the table stays as it is, a new one takes the next handle and
\* the handles given out before stay as they are
RegistrationStep ==
    call'.fn = "register_type"
        => IF IsRegistered(call'.ty, registry)
           THEN /\ registry' = registry
                /\ handle' = HandleOf(call'.ty, registry)
           ELSE /\ handle' = Len(registry)
                /\ Len(registry') > Len(registry)
                /\ SubSeq(registry', 1, Len(registry)) = registry
                /\ registry'[handle' + 1] = call'.ty

\* the handles of the cells of the variant s of the mixed enum, in field order
VariantHandles(s) ==
    [i \in DOMAIN portable.enum.variants[s].fields |->
        portable.enum.variants[s].fields[i].layout.cell.ty]

\* C9: over any sequence of registrations in one registry, a descriptor
\* registered before resolves to its earlier handle without a new table
\* entry, two distinct descriptors never share a handle, and handles are
\* 0, 1, 2, ... in order of first encounter; in the mixed enum i32 is 0 and
\* i64 is 1 in every variant.
C9_RegistryDeterminism ==
    /\ [](NoDuplicates(registry))
    /\ [][RegistrationStep]_vars
    /\ [](call.fn = "mixed_enum_layout"
            => /\ VariantHandles("1") = <<0, 1>>
               /\ VariantHandles("2") = <<0, 1>>
               /\ registry = <<"i32", "i64">>)

C9_Witness ==
    /\ call.fn = "register_type" /\ call.ty = "i64"
    /\ registry = <<"i32", "i64", "bool">>
    /\ handle = 1

\* C10: the portable form of a hash-collection layout with root key K and
\* strategy (h, p, q) has offset K, the element's cell layout, and a strategy
\* with hasher h, prefix p and postfix q as they were given, the byte strings
\* as hex and an empty one as the empty string.
C10_HashPortable ==
    BuiltHash
        => /\ portable.hash.offset = LayoutKey_serialize(call.key)
           /\ portable.hash.layout
                  = [cell |-> [key |-> LayoutKey_serialize(call.key), ty |-> 0]]
           /\ portable.hash.strategy
                  = [hasher |-> call.strategy.hasher,
                     prefix |-> Bytes_serialize(call.strategy.prefix),
                     postfix |-> Bytes_serialize(call.strategy.postfix)]
           /\ (call.strategy.postfix = <<>> => portable.hash.strategy.postfix = "")
           /\ (call.strategy.prefix = <<255, 1>>
                  => portable.hash.strategy.prefix = "0xff01")
           /\ (call.fn = "unbounded_hashing_layout" /\ call.key = 567
                  => portable = unbounded_layout_works_expected)

C10_Witness ==
    /\ call.fn = "hashing_layout" /\ call.strategy.hasher = "Keccak256"
    /\ call.strategy.prefix = <<255, 1>> /\ call.strategy.postfix = <<0>>
    /\ portable.hash.strategy.prefix = "0xff01"
    /\ portable.hash.strategy.postfix = "0x00"

----------------------------------------------------------------------------
(* Properties of the rendering of keys (LayoutSpec).                       *)

LowerHexChars == {HexDigit(n) : n \in 0 .. 15}

HexValue(c) == CHOOSE n \in 0 .. 15 : HexDigit(n) = c

RECURSIVE ParseHex(_, _)
\* the number the hexadecimal digits at the positions 3 .. n of str spell
ParseHex(str, n) ==
    IF n < 3 THEN 0
    ELSE ParseHex(str, n - 1) * 16 + HexValue(SubSeq(str, n, n))

\* C11: a layout key is rendered as a string of one fixed width, "0x" and
\* then lowercase hexadecimal digits padded with zeros on the left (key 1 is
\* "0x00000001"); the digits spell the key, so two distinct keys never render
\* alike, and the length is the same for every key.
C11_KeyRendering ==
    call.fn = "layout_key_works"
        => /\ Len(portable) = 10
           /\ SubSeq(portable, 1, 2) = "0x"
           /\ \A i \in 3 .. 10 : SubSeq(portable, i, i) \in LowerHexChars
           /\ ParseHex(portable, 10) = call.key
           /\ \A k \in LayoutKeys \ {call.key} : layout_key_json(k) # portable
           /\ (call.key = 1 => portable = layout_key_works_expected)

C11_Witness ==
    /\ call.fn = "layout_key_works" /\ call.key = 1
    /\ portable = "0x00000001"

----------------------------------------------------------------------------
(* Properties of Upgradable (UpgradableSpec) and the frame of pull_or_init *)
(* (Spec).                                                                 *)

\* the cursor a root operation of the step just taken started from
RootPtr == KeyPtr_from(res'.key)

\* what a storage step is taken on: the store it finds and the operation,
\* status, type, key and argument it records; the operations are functions
\* of these, so a step that leaves them all unchanged repeats the previous one
Operation == <<store, res.op, res.status, res.ty, res.key, res.arg>>

\* a step of Upgradable's push, clear or layout does to the store and the
\* cursor what T's own operation does for the inner value
TransparentStep ==
    /\ res'.op = "push_spread"
          => LET t == T_push_spread(res'.ty, res'.arg, RootPtr, store)
             IN  /\ store' = t.store /\ res'.ptr = t.ptr
                 /\ DOMAIN store' = DOMAIN store \cup {res'.key}
                 /\ store'[res'.key] = Encode(res'.ty, res'.arg)
                 /\ \A k \in DOMAIN store \ {res'.key} : store'[k] = store[k]
    /\ res'.op = "clear_spread"
          => LET t == T_clear_spread(res'.ty, res'.arg, RootPtr, store)
             IN  /\ store' = t.store /\ res'.ptr = t.ptr
                 /\ DOMAIN store' = DOMAIN store \ {res'.key}
    /\ res'.op = "push_packed"
          => /\ store' = T_push_packed(res'.ty, res'.arg, res'.key, store).store
             /\ DOMAIN store' = DOMAIN store \cup {res'.key}
             /\ store'[res'.key] = Encode(res'.ty, res'.arg)
    /\ res'.op = "clear_packed"
          => /\ store' = T_clear_packed(res'.ty, res'.arg, res'.key, store).store
             /\ DOMAIN store' = DOMAIN store \ {res'.key}
    /\ res'.op = "layout"
          => /\ res'.out.value = T_layout(res'.ty, RootPtr).layout
             /\ res'.ptr = T_layout(res'.ty, RootPtr).ptr
             /\ res'.out.value
                    = [tag |-> "cell", key |-> res'.key, ty |-> res'.ty]

\* C12: the status marker is storage-transparent: for every T and either
\* status Upgradable has T's FOOTPRINT and REQUIRES_DEEP_CLEAN_UP, its push
\* and clear (spread and packed) touch the slots and write the bytes T's
\* would for the inner value, and its storage layout is T's for the same key.
C12_StatusIsTransparent ==
    /\ [](\A S \in Statuses, T \in PackedTypes :
            /\ Upgradable_FOOTPRINT(S, T) = T_FOOTPRINT(T)
            /\ Upgradable_REQUIRES_DEEP_CLEAN_UP(S, T)
                   = T_REQUIRES_DEEP_CLEAN_UP(T))
    /\ [][TransparentStep]_Operation

C12_Witness ==
    /\ res.op = "push_spread" /\ res.status = "NotInitialized"
    /\ res.ty = "u32" /\ res.arg = 321
    /\ DOMAIN store = {res.key}
    /\ store[res.key] = Encode("u32", 321)
    /\ res.ptr = KeyPtr_from(res.key + 1)

\* a step that allocates: the store stays as it is, the value is the default
\* whatever the store holds, and the cursor ends where a pull from the same
\* key ends
AllocationStep ==
    res'.op = "allocate_spread"
        => LET alloc == Upgradable_allocate_spread(res'.status, res'.ty,
                                                   RootPtr, EmptyStore)
               pulled == Upgradable_pull_spread(res'.status, res'.ty,
                                                RootPtr, store)
           IN  /\ store' = store
               /\ res'.out = Value(Upgradable_new(Default(res'.ty)), FALSE)
               /\ res'.out = alloc.out /\ res'.ptr = alloc.ptr
               /\ res'.ptr = KeyPtr_from(res'.key + T_FOOTPRINT(res'.ty))
               /\ (pulled.out.kind = "value" => pulled.ptr = res'.ptr)
               /\ \A T2 \in PackedTypes :
                     KeyPtr_advance_by(res'.ptr, T_FOOTPRINT(T2)).key
                         = res'.key + T_FOOTPRINT(res'.ty)

\* C13: allocate on a cursor at key K produces the default-valued T with no
\* read or write of the store, and leaves the cursor where pull from K leaves
\* it, advanced by T's footprint, so that a sibling taken afterwards lands on
\* the same key either way; Upgradable's allocate_spread delegates to T's.
C13_AllocateIsPure == [][AllocationStep]_Operation

C13_Witness ==
    /\ res.op = "allocate_spread" /\ res.status = "Initialized"
    /\ res.ty = "u32" /\ res.key \in DOMAIN store
    /\ res.out.value = Upgradable_new(0)
    /\ res.ptr = KeyPtr_from(res.key + 1)

PulledNotInitialized ==
    res.op = "pull_spread" /\ res.status = "NotInitialized"

\* C14: pull_spread of Upgradable<T, NotInitialized> at a cursor at key K
\* gives what allocate_spread gives when the store holds no entry at K and
\* what T's pull_spread gives when it holds one, the cursor advanced once by
\* T's footprint either way; an entry at K that does not decode aborts with
\* "could not properly decode storage entry" and nothing is allocated.
C14_NotInitializedPull ==
    /\ (PulledNotInitialized /\ Absent)
          => /\ res.out = Upgradable_allocate_spread("NotInitialized", res.ty,
                              KeyPtr_from(res.key), store).out
             /\ res.out = Value(Upgradable_new(Default(res.ty)), FALSE)
             /\ res.ptr = KeyPtr_from(res.key + T_FOOTPRINT(res.ty))
    /\ (PulledNotInitialized /\ ~Absent /\ ~Undecodable)
          => /\ res.out = Wrap(T_pull_spread(res.ty, KeyPtr_from(res.key),
                                             store)).out
             /\ res.out.kind = "value"
             /\ res.ptr = KeyPtr_from(res.key + T_FOOTPRINT(res.ty))
    /\ (PulledNotInitialized /\ Undecodable)
          => /\ res.out.kind = "panic"
             /\ res.out.msg = "could not properly decode storage entry"
             /\ res.out = Panic("could not properly decode storage entry")

C14_Witness ==
    /\ PulledNotInitialized /\ res.ty = "u32" /\ Undecodable
    /\ res.out.kind = "panic"
    /\ res.out.msg = "could not properly decode storage entry"

\* a step of pull_or_init: the store is as it was, and where the call
\* initialized at a key without an entry the key is still without one, so
\* that the same call made again gives the same result
PullOrInitStep ==
    res'.op = "pull_or_init"
        => /\ store' = store
           /\ (res'.out.initialized /\ res'.key \notin DOMAIN store)
                 => /\ res'.key \notin DOMAIN store'
                    /\ pull_or_init(res'.ty, res'.key, store') = res'.out

\* C15: pull_or_init never modifies the store, whether the value is found,
\* absent, undecodable or the call aborts; the initialized value is not
\* persisted, so a call on an absent key made again with no write in between
\* initializes again and returns the same initialized default.
C15_StoreUntouched == [][PullOrInitStep]_Operation

C15_Witness ==
    /\ PulledOrInit /\ res.ty = "U32" /\ Absent
    /\ res.out.initialized
    /\ DOMAIN store # {}

====
